---- MODULE Spec2Model ----
(***************************************************************************)
(* Veritas: the chunked verification pipeline of src/App.tsx (App,        *)
(* createChunks, handleAnalyze, handleFileChange, handleExportCSV) and the *)
(* oracle adapter of src/services/geminiService (cleanJson,                *)
(* verifyManuscript).                                                      *)
(*                                                                         *)
(* Strings are sequences of one-character strings; positions are the       *)
(* 0-based positions of the JavaScript source.  React state is the state   *)
(* committed after each synchronous segment of a handler (React batches    *)
(* the setState calls of one segment), so one action is one segment: the   *)
(* code from an event or a promise settling up to the next await.          *)
(***************************************************************************)
EXTENDS Integers, Sequences, FiniteSets, TLC

\* ------------------------------------------------------------------ bounds

\* CHUNK_SIZE is 30000 in the source (src/App.tsx:26); the model scales it.
CHUNK_SIZE == 4
\* Longest text and largest maxSize the segmenter is applied to on its own.
MaxLen == 12
MaxSize == 12
\* File parses that may be awaiting their parser at the same time.
MaxParses == 2
MaxItems == 3
MaxField == 2

\* ------------------------------------------------------------------ values

\* null (of progress, error, fileName, the call in flight) and undefined (a
\* field an object does not have, read as a string).
Null == [null |-> TRUE]
Undefined == <<"undefined">>
NL == "\n"

Min(a, b) == IF a < b THEN a ELSE b

\* ------------------------------------------------------- string primitives

\* String.prototype.slice(s, e) for 0 <= s <= e <= length.
Slice(text, s, e) == SubSeq(text, s + 1, e)

\* String.prototype.lastIndexOf(ch, from): the greatest position <= from
\* holding ch, or -1.
LastIndexOf(text, ch, from) ==
  LET S == {p \in 0..Min(from, Len(text) - 1) : text[p + 1] = ch}
  IN IF S = {} THEN -1 ELSE CHOOSE p \in S : \A q \in S : q <= p

IsSpace(c) == c \in {" ", NL}

\* String.prototype.trim() yields the empty string.
TrimIsEmpty(text) == \A k \in 1..Len(text) : IsSpace(text[k])

\* ------------------------------------------------------------ createChunks

\* Mutant of ChunkEnd: the cut after the line break, not before it.
ChunkEndInclusive(text, size, i) ==
  LET end == Min(i + size, Len(text))
  IN IF end < Len(text)
     THEN LET lastNewline == LastIndexOf(text, NL, end)
          IN IF 10 * lastNewline > 10 * i + 9 * size THEN lastNewline + 1 ELSE end
     ELSE end

\* Mutant of ChunkEnd: a line break exactly nine tenths of size after i
\* is taken too.
ChunkEndAtOrAfter(text, size, i) ==
  LET end == Min(i + size, Len(text))
  IN IF end < Len(text)
     THEN LET lastNewline == LastIndexOf(text, NL, end)
          IN IF 10 * lastNewline >= 10 * i + 9 * size THEN lastNewline ELSE end
     ELSE end

\* Mutant of ChunkEnd: the line break is looked for in the last chunk too.
ChunkEndNoGuard(text, size, i) ==
  LET end == Min(i + size, Len(text))
      lastNewline == LastIndexOf(text, NL, end)
  IN IF 10 * lastNewline > 10 * i + 9 * size THEN lastNewline ELSE end

\* One pass of the loop body: the end of the chunk that starts at i
\* (src/App.tsx:140-148).  lastNewline > i + size * 0.9 is compared in
\* tenths, which is exact for integers.
ChunkEnd(text, size, i) ==
  LET end == Min(i + size, Len(text))
  IN IF end < Len(text)
     THEN LET lastNewline == LastIndexOf(text, NL, end)
          IN IF 10 * lastNewline > 10 * i + 9 * size THEN lastNewline ELSE end
     ELSE end

\* Mutant of ChunkOf: a chunk that ends in a line break loses it.
ChunkOfTrimmed(text, i, end) ==
  [text |-> IF end > i /\ text[end] = NL THEN Slice(text, i, end - 1)
            ELSE Slice(text, i, end),
   startIndex |-> i]

\* chunks.push({ text: text.slice(i, end), startIndex: i })
ChunkOf(text, i, end) == [text |-> Slice(text, i, end), startIndex |-> i]

RECURSIVE ChunkLoop(_, _, _, _)
ChunkLoop(text, size, i, chunks) ==
  IF i < Len(text)
  THEN LET end == ChunkEnd(text, size, i)
       IN ChunkLoop(text, size, end, Append(chunks, ChunkOf(text, i, end)))
  ELSE chunks

createChunks(text, size) == ChunkLoop(text, size, 0, <<>>)

\* ------------------------------------------------------------------- types

\* enum CheckStatus (src/types.ts:1-6), as character sequences.
ACCURATE == <<"A", "C", "C", "U", "R", "A", "T", "E">>
PARAPHRASED == <<"P", "A", "R", "A", "P", "H", "R", "A", "S", "E", "D">>
MISATTRIBUTED == <<"M", "I", "S", "A", "T", "T", "R", "I", "B", "U", "T", "E", "D">>
UNVERIFIABLE == <<"U", "N", "V", "E", "R", "I", "F", "I", "A", "B", "L", "E">>
CheckStatus == {ACCURATE, PARAPHRASED, MISATTRIBUTED, UNVERIFIABLE}

\* interface VerificationItem (src/types.ts:8-14): an object as JSON.parse
\* builds it; a field the oracle left out reads as undefined.
VerificationItem(location, quote_text, claimed_source, status, notes) ==
  [location |-> location, quote_text |-> quote_text,
   claimed_source |-> claimed_source, status |-> status, notes |-> notes]

\* item.status of an element of results: undefined on a string primitive.
StatusOf(item) == IF "status" \in DOMAIN item THEN item.status ELSE Undefined

\* ------------------------------------------------- oracle responses (input)

\* The oracle's answers the model draws from.
ItemA == VerificationItem(<<"p">>, <<"q">>, <<"s">>, ACCURATE, <<"n">>)
ItemM == VerificationItem(<<"p">>, <<"r">>, Undefined, MISATTRIBUTED, <<"n">>)
ItemBogus == VerificationItem(<<"p">>, <<"q">>, <<"s">>, <<"O", "K">>, <<"n">>)
ItemNoStatus == VerificationItem(<<"p">>, <<"q">>, <<"s">>, Undefined, <<"n">>)

\* JSON values: what JSON.parse returns.
JArray(items) == [type |-> "array", items |-> items]
JString(chars) == [type |-> "string", chars |-> chars]
JObject == [type |-> "object"]

\* response.text is a sequence of tokens: white space, a code fence with the
\* json tag, a bare code fence, characters that are no JSON, and the text of
\* a JSON value.
Ws == [t |-> "ws"]
FenceJson == [t |-> "fence_json"]
Fence == [t |-> "fence"]
Junk == [t |-> "junk"]
Val(v) == [t |-> "value", v |-> v]

RawTexts ==
  { <<>>,
    <<Ws>>,
    <<Junk>>,
    <<FenceJson, Ws, Junk, Ws, Fence>>,
    <<Val(JArray(<<>>))>>,
    <<Val(JArray(<<ItemA>>))>>,
    <<Ws, FenceJson, Ws, Val(JArray(<<ItemM>>)), Ws, Fence, Ws>>,
    <<Fence, Val(JArray(<<ItemA, ItemBogus>>)), Fence>>,
    <<Val(JArray(<<ItemNoStatus>>))>>,
    <<Val(JString(<<"x">>))>>,
    <<Val(JObject)>> }

\* ----------------------------------------------------------- geminiService

RECURSIVE DropLeadingWs(_)
DropLeadingWs(text) ==
  IF text # <<>> /\ Head(text) = Ws THEN DropLeadingWs(Tail(text)) ELSE text

RECURSIVE DropTrailingWs(_)
DropTrailingWs(text) ==
  IF text # <<>> /\ text[Len(text)] = Ws
  THEN DropTrailingWs(SubSeq(text, 1, Len(text) - 1))
  ELSE text

\* String.prototype.trim()
Trim(text) == DropTrailingWs(DropLeadingWs(text))

\* The first replace of either branch: the opening fence goes, with the
\* white space after it.
StripOpener(text) == DropLeadingWs(Tail(text))

\* The second replace: a closing fence at the very end goes, with the white
\* space before it.
StripCloser(text) ==
  IF text # <<>> /\ text[Len(text)] = Fence
  THEN DropTrailingWs(SubSeq(text, 1, Len(text) - 1))
  ELSE text

\* cleanJson (geminiService:13-22).
cleanJson(text) ==
  LET clean == Trim(text)
  IN IF clean # <<>> /\ Head(clean) = FenceJson THEN StripCloser(StripOpener(clean))
     ELSE IF clean # <<>> /\ Head(clean) = Fence THEN StripCloser(StripOpener(clean))
     ELSE clean

\* JSON.parse accepts one value with white space around it and throws a
\* SyntaxError on anything else.
JsonParses(text) == LET t == Trim(text) IN Len(t) = 1 /\ t[1].t = "value"
JsonParse(text) == Trim(text)[1].v

\* What verifyManuscript resolves with once the API call has answered with
\* response.text = jsonText (geminiService:89-99).
ParseResponse(jsonText) ==
  IF jsonText = <<>> THEN JArray(<<>>)
  ELSE LET cleanedJson == cleanJson(jsonText)
       IN IF JsonParses(cleanedJson) THEN JsonParse(cleanedJson)
          ELSE JArray(<<>>)

\* ...chunkResults in [...prev, ...chunkResults] (src/App.tsx:189): an array
\* spreads its elements, a string its characters, anything else throws a
\* TypeError when React runs the updater.
Iterable(v) == v.type \in {"array", "string"}
Spread(v) ==
  IF v.type = "array" THEN v.items
  ELSE [k \in 1..Len(v.chars) |-> [prim |-> v.chars[k]]]

\* -------------------------------------------------------- context stitcher

IsDigit(c) == c \in {"0", "1", "2", "3", "4", "5", "6", "7", "8", "9"}

\* The end (exclusive) of the match of /\[P(\d+)\]/ that starts at position
\* p of text, or -1 when none starts there.
MarkerEnd(text, p) ==
  IF p + 3 < Len(text) + 1 /\ text[p + 1] = "[" /\ text[p + 2] = "P"
  THEN LET stops == {q \in (p + 2)..Len(text) :
                       q = Len(text) \/ ~IsDigit(text[q + 1])}
           q == CHOOSE x \in stops : \A y \in stops : x <= y
       IN IF q > p + 2 /\ q < Len(text) /\ text[q + 1] = "]" THEN q + 1 ELSE -1
  ELSE -1

\* [...textBefore.matchAll(/\[P(\d+)\]/g)], as the start positions.
Matches(text) == {p \in 0..(Len(text) - 1) : MarkerEnd(text, p) # -1}

\* The characters of "(Context: Continued from ".
ContextPrefix ==
  <<"(", "C", "o", "n", "t", "e", "x", "t", ":", " ", "C", "o", "n", "t", "i",
    "n", "u", "e", "d", " ", "f", "r", "o", "m", " ">>

\* chunkContent with matches[0] where the code takes the last match.
ChunkContentFirstMatch(fullText, cs, i) ==
  LET chunk == cs[i + 1]
      textBefore == Slice(fullText, 0, chunk.startIndex)
      matches == Matches(textBefore)
  IN IF i > 0 /\ matches # {}
     THEN LET p == CHOOSE x \in matches : \A y \in matches : x <= y
              lastPage == Slice(textBefore, p, MarkerEnd(textBefore, p))
          IN ContextPrefix \o lastPage \o <<")", NL>> \o chunk.text
     ELSE chunk.text

\* chunkContent of iteration i (src/App.tsx:175-186).
ChunkContent(fullText, cs, i) ==
  LET chunk == cs[i + 1]
      textBefore == Slice(fullText, 0, chunk.startIndex)
      matches == Matches(textBefore)
  IN IF i > 0 /\ matches # {}
     THEN LET p == CHOOSE x \in matches : \A y \in matches : y <= x
              lastPage == Slice(textBefore, p, MarkerEnd(textBefore, p))
          IN ContextPrefix \o lastPage \o <<")", NL>> \o chunk.text
     ELSE chunk.text

\* ------------------------------------------------------------------- state

\* The texts a file parses to or the operator types, and the API keys.
Texts ==
  { <<>>,
    <<" ", NL>>,
    <<"a", "b">>,
    <<"[", "P", "1", "]", "a", "b">>,
    <<"[", "P", "1", "]", "[", "P", "2", "]", "a", "b">>,
    <<"a", "b", NL, "[", "P", "2", "]", "c", "d", NL, "e", "f">> }
ApiKeys == {<<>>, <<"k">>}

\* Texts the segmenter is applied to on its own: a line break or not is all
\* createChunks tells apart.
ChunkTexts == UNION {[1..n -> {"a", NL}] : n \in 0..MaxLen}

\* The textarea is read-only above this length (src/App.tsx:355).
DISPLAY_LIMIT == 50000

File == [name |-> "manuscript"]
ErrNoKey == [message |-> "Please configure your Gemini API Key first."]
ErrNoText == [message |-> "Please input or upload text to verify."]
ErrParse ==
  [message |-> "Error parsing file. Please ensure it is a valid PDF, DOCX, or Text file."]
ErrBatch ==
  [message |-> "Verification process encountered an error. Please check your API Key and try again."]

VARIABLES
  inputText,      \* useState: the manuscript text
  results,        \* useState: the result set
  isProcessing,   \* useState
  isParsing,      \* useState
  error,          \* useState: Null or a message
  fileName,       \* useState: Null or a file name
  progress,       \* useState: Null or [current, total]
  apiKey,         \* useState
  storedKey,      \* localStorage gemini_api_key
  mounted,        \* the React root still renders App
  runPc,          \* handleAnalyze: "idle", or "awaiting" verifyManuscript
  runText,        \* inputText as the running handleAnalyze captured it
  chunks,         \* handleAnalyze: const chunks
  runI,           \* handleAnalyze: the loop's i
  inflight,       \* Null, or the verifyManuscript call in flight: its chunkContent
  outstanding,    \* verifyManuscript calls issued and not yet settled
  parses,         \* handleFileChange invocations awaiting their parser
  returned,       \* what verifyManuscript returned for each chunk of the run
  stopRequested,  \* the operator pressed the button while it reads Stop
  cleared,        \* how many entries of returned a file upload has cleared
  cText,          \* createChunks on its own: text
  cSize,          \* createChunks on its own: size
  cChunks,        \* createChunks on its own: the chunks returned
  cDone,          \* createChunks on its own: it has returned
  csvContent,     \* handleExportCSV: Null, or the text handed to the download
  csvDone         \* handleExportCSV on its own: it has returned

appState == <<inputText, results, isProcessing, isParsing, error, fileName,
              progress, apiKey, storedKey>>
runState == <<runPc, runText, chunks, runI, inflight, outstanding, returned>>
chunkState == <<cText, cSize, cChunks, cDone>>
exportState == <<csvContent, csvDone>>
history == <<stopRequested, cleared>>
vars == <<appState, mounted, runState, parses, history, chunkState,
          exportState>>

\* One pass of results.forEach in the stats memo (src/App.tsx:64-70): the
\* count of the item's status goes up by one, and no count when the status is
\* none of the four.
StatsCount(s, r) ==
  LET status == StatusOf(r)
  IN IF status = ACCURATE THEN [s EXCEPT !.accurate = @ + 1]
     ELSE IF status = PARAPHRASED THEN [s EXCEPT !.paraphrased = @ + 1]
     ELSE IF status = MISATTRIBUTED THEN [s EXCEPT !.misattributed = @ + 1]
     ELSE IF status = UNVERIFIABLE THEN [s EXCEPT !.unverifiable = @ + 1]
     ELSE s

RECURSIVE StatsLoop(_, _, _)
StatsLoop(s, rs, k) ==
  IF k > Len(rs) THEN s ELSE StatsLoop(StatsCount(s, rs[k]), rs, k + 1)

\* const stats = useMemo(..., [results]) (src/App.tsx:55-71): what every
\* render of App reads, computed from the results of that render.
stats ==
  StatsLoop([accurate |-> 0, paraphrased |-> 0, misattributed |-> 0,
             unverifiable |-> 0, total |-> Len(results)], results, 1)

\* item.location and the like: undefined when the element has no such
\* property (a string primitive has none of the five).
Field(item, name) == IF name \in DOMAIN item THEN item[name] ELSE Undefined

\* str.replace(/"/g, '""') (src/App.tsx:210).
RECURSIVE ReplaceQuotes(_)
ReplaceQuotes(str) ==
  IF str = <<>> THEN <<>>
  ELSE (IF Head(str) = "\"" THEN <<"\"", "\"">> ELSE <<Head(str)>>)
         \o ReplaceQuotes(Tail(str))

\* escape that wraps the field and leaves its quotes as they are.
escapeNoDoubling(str) ==
  <<"\"">> \o (IF str = Undefined \/ str = <<>> THEN <<>> ELSE str) \o <<"\"">>

\* const escape (src/App.tsx:210): str || '' is '' for undefined and for ''.
escape(str) ==
  <<"\"">> \o ReplaceQuotes(IF str = Undefined \/ str = <<>> THEN <<>> ELSE str)
         \o <<"\"">>

\* Array.prototype.join.
RECURSIVE Join(_, _)
Join(parts, sep) ==
  IF parts = <<>> THEN <<>>
  ELSE IF Len(parts) = 1 THEN parts[1]
  ELSE parts[1] \o sep \o Join(Tail(parts), sep)

\* const headers (src/App.tsx:205).
headers ==
  << <<"L", "o", "c", "a", "t", "i", "o", "n">>,
     <<"Q", "u", "o", "t", "e">>,
     <<"C", "l", "a", "i", "m", "e", "d", " ", "S", "o", "u", "r", "c", "e">>,
     <<"S", "t", "a", "t", "u", "s">>,
     <<"N", "o", "t", "e", "s">> >>

\* The row of one item (src/App.tsx:208-218).
CsvRow(item) ==
  Join(<<escape(Field(item, "location")), escape(Field(item, "quote_text")),
         escape(Field(item, "claimed_source")), escape(Field(item, "status")),
         escape(Field(item, "notes"))>>, <<",">>)

\* const csvContent (src/App.tsx:220).
CsvContent(rs) ==
  Join(<<Join(headers, <<",">>)>> \o [k \in 1..Len(rs) |-> CsvRow(rs[k])], <<NL>>)

\* App after its first render and the mount effect (src/App.tsx:29-46).
InitApp ==
  /\ inputText = <<>>
  /\ results = <<>>
  /\ isProcessing = FALSE
  /\ isParsing = FALSE
  /\ error = Null
  /\ fileName = Null
  /\ progress = Null
  /\ storedKey \in ApiKeys
  /\ apiKey = storedKey
  /\ mounted = TRUE
  /\ runPc = "idle"
  /\ runText = <<>>
  /\ chunks = <<>>
  /\ runI = 0
  /\ inflight = Null
  /\ outstanding = 0
  /\ parses = 0
  /\ returned = <<>>
  /\ stopRequested = FALSE
  /\ cleared = 0

Init ==
  /\ InitApp
  /\ cText = <<>>
  /\ cSize = 1
  /\ cChunks = <<>>
  /\ cDone = FALSE
  /\ csvContent = Null
  /\ csvDone = FALSE

\* ----------------------------------------------------------------- actions

\* handleApiKeyChange (src/App.tsx:48-52).
ApiKeyChange(newKey) ==
  /\ mounted
  /\ newKey # apiKey
  /\ apiKey' = newKey
  /\ storedKey' = newKey
  /\ UNCHANGED <<inputText, results, isProcessing, isParsing, error, fileName,
                 progress, mounted, runState, parses, history, chunkState, exportState>>

\* The textarea's onChange (src/App.tsx:350-356): disabled while a file is
\* parsing, read-only above the display limit.
TextEdit(value) ==
  /\ mounted
  /\ ~isParsing
  /\ ~(Len(inputText) > DISPLAY_LIMIT)
  /\ value # inputText
  /\ inputText' = value
  /\ UNCHANGED <<results, isProcessing, isParsing, error, fileName, progress,
                 apiKey, storedKey, mounted, runState, parses, history,
                 chunkState, exportState>>

\* handleFileChange up to its first await (src/App.tsx:105-119): the file
\* input is never disabled.
FileChange ==
  /\ mounted
  /\ parses < MaxParses
  /\ fileName' = File
  /\ error' = Null
  /\ isParsing' = TRUE
  /\ inputText' = <<>>
  /\ results' = <<>>
  /\ parses' = parses + 1
  /\ cleared' = Len(returned)
  /\ UNCHANGED <<isProcessing, progress, apiKey, storedKey, mounted, runState,
                 stopRequested, chunkState, exportState>>

\* handleFileChange once the parser has answered with text
\* (src/App.tsx:127, 131-133).
ParseDone(text) ==
  /\ parses > 0
  /\ parses' = parses - 1
  /\ IF mounted
     THEN /\ inputText' = text
          /\ isParsing' = FALSE
     ELSE UNCHANGED <<inputText, isParsing>>
  /\ UNCHANGED <<results, isProcessing, error, fileName, progress, apiKey,
                 storedKey, mounted, runState, history, chunkState, exportState>>

\* handleFileChange once the parser has thrown (src/App.tsx:128-133).
ParseFail ==
  /\ parses > 0
  /\ parses' = parses - 1
  /\ IF mounted
     THEN /\ error' = ErrParse
          /\ fileName' = Null
          /\ isParsing' = FALSE
     ELSE UNCHANGED <<error, fileName, isParsing>>
  /\ UNCHANGED <<inputText, results, isProcessing, progress, apiKey, storedKey,
                 mounted, runState, history, chunkState, exportState>>

\* Mutant of Progress: total counts the chunks still to do.
ProgressRemaining(current, cs) == [current |-> current, total |-> Len(cs) - current]

\* { current: ..., total: chunks.length } (src/App.tsx:171, 190).
Progress(current, cs) == [current |-> current, total |-> Len(cs)]

\* The button disabled by everything but a run in progress.
ButtonDisabledIdle == isParsing \/ inputText = <<>> \/ apiKey = <<>>

\* The button is disabled (src/App.tsx:367): a click reaches no handler.
ButtonDisabled == isProcessing \/ isParsing \/ inputText = <<>> \/ apiKey = <<>>

\* handleAnalyze up to its first await (src/App.tsx:155-188): the checks, the
\* resets, the chunks, and the call for chunk 0.  getGeminiClient cannot
\* throw: the key was checked at line 156.
Analyze ==
  /\ mounted
  /\ ~ButtonDisabled
  /\ IF apiKey = <<>>
     THEN /\ error' = ErrNoKey
          /\ UNCHANGED <<results, isProcessing, progress, runState, history>>
     ELSE IF TrimIsEmpty(inputText)
     THEN /\ error' = ErrNoText
          /\ UNCHANGED <<results, isProcessing, progress, runState, history>>
     ELSE LET cs == createChunks(inputText, CHUNK_SIZE)
          IN /\ error' = Null
             /\ results' = <<>>
             /\ returned' = <<>>
             /\ stopRequested' = FALSE
             /\ cleared' = 0
             /\ IF Len(cs) > 0
                THEN /\ isProcessing' = TRUE
                     /\ progress' = Progress(0, cs)
                     /\ runPc' = "awaiting"
                     /\ runText' = inputText
                     /\ chunks' = cs
                     /\ runI' = 0
                     /\ inflight' = [chunkContent |-> ChunkContent(inputText, cs, 0)]
                     /\ outstanding' = outstanding + 1
                ELSE /\ isProcessing' = FALSE
                     /\ progress' = Null
                     /\ UNCHANGED <<runPc, runText, chunks, runI, inflight,
                                    outstanding>>
  /\ UNCHANGED <<inputText, isParsing, fileName, apiKey, storedKey, mounted,
                 parses, chunkState, exportState>>

\* The loop of handleAnalyze goes on after iteration runI: the next call is
\* issued, or the loop is over and the handler returns.
RunAdvance ==
  IF runI + 1 < Len(chunks)
  THEN /\ runI' = runI + 1
       /\ inflight' = [chunkContent |-> ChunkContent(runText, chunks, runI + 1)]
       /\ outstanding' = (outstanding - 1) + 1
       /\ UNCHANGED <<runPc, runText, chunks>>
  ELSE /\ runPc' = "idle"
       /\ runText' = <<>>
       /\ chunks' = <<>>
       /\ runI' = 0
       /\ inflight' = Null
       /\ outstanding' = outstanding - 1

\* verifyManuscript resolves (geminiService:89-99) and handleAnalyze runs to
\* its next await or to its end (src/App.tsx:188-198).  A value that does not
\* spread makes the updater throw while React renders: React unmounts the
\* root, nothing of the batch is committed and later setState calls do
\* nothing, while the loop itself goes on.
OracleResolve(jsonText) ==
  /\ runPc = "awaiting"
  /\ LET chunkResults == ParseResponse(jsonText)
     IN /\ returned' = Append(returned, chunkResults)
        /\ RunAdvance
        /\ IF mounted /\ Iterable(chunkResults)
           THEN /\ results' = results \o Spread(chunkResults)
                /\ IF runI + 1 < Len(chunks)
                   THEN /\ progress' = Progress(runI + 1, chunks)
                        /\ UNCHANGED isProcessing
                   ELSE /\ progress' = Null
                        /\ isProcessing' = FALSE
                /\ UNCHANGED mounted
           ELSE /\ mounted' = FALSE
                /\ UNCHANGED <<results, progress, isProcessing>>
  /\ UNCHANGED <<inputText, isParsing, error, fileName, apiKey, storedKey,
                 parses, history, chunkState, exportState>>

\* Mutant of OracleReject: the failure rolls the result set back.
OracleRejectRollback ==
  /\ runPc = "awaiting"
  /\ runPc' = "idle"
  /\ runText' = <<>>
  /\ chunks' = <<>>
  /\ runI' = 0
  /\ inflight' = Null
  /\ outstanding' = outstanding - 1
  /\ IF mounted
     THEN /\ error' = ErrBatch
          /\ isProcessing' = FALSE
          /\ progress' = Null
          /\ results' = <<>>
     ELSE UNCHANGED <<error, isProcessing, progress, results>>
  /\ UNCHANGED <<inputText, isParsing, fileName, apiKey, storedKey,
                 mounted, parses, returned, history, chunkState, exportState>>

\* Mutant of OracleReject: the handler without its finally block.
OracleRejectNoFinally ==
  /\ runPc = "awaiting"
  /\ runPc' = "idle"
  /\ runText' = <<>>
  /\ chunks' = <<>>
  /\ runI' = 0
  /\ inflight' = Null
  /\ outstanding' = outstanding - 1
  /\ IF mounted
     THEN error' = ErrBatch
     ELSE UNCHANGED error
  /\ UNCHANGED <<inputText, results, isProcessing, progress, isParsing, fileName,
                 apiKey, storedKey, mounted, parses, returned, history,
                 chunkState, exportState>>

\* verifyManuscript rejects (geminiService:100-104): catch and finally of
\* handleAnalyze (src/App.tsx:192-198).
OracleReject ==
  /\ runPc = "awaiting"
  /\ runPc' = "idle"
  /\ runText' = <<>>
  /\ chunks' = <<>>
  /\ runI' = 0
  /\ inflight' = Null
  /\ outstanding' = outstanding - 1
  /\ IF mounted
     THEN /\ error' = ErrBatch
          /\ isProcessing' = FALSE
          /\ progress' = Null
     ELSE UNCHANGED <<error, isProcessing, progress>>
  /\ UNCHANGED <<inputText, results, isParsing, fileName, apiKey, storedKey,
                 mounted, parses, returned, history, chunkState, exportState>>

\* The operator presses the button while it reads Stop (src/App.tsx:365-385):
\* it is disabled then, so no handler runs.
ClickStop ==
  /\ mounted
  /\ isProcessing
  /\ ~stopRequested
  /\ stopRequested' = TRUE
  /\ UNCHANGED <<appState, mounted, runState, parses, cleared, chunkState, exportState>>

Next ==
  \/ \E newKey \in ApiKeys : ApiKeyChange(newKey)
  \/ \E value \in Texts : TextEdit(value)
  \/ FileChange
  \/ \E text \in Texts : ParseDone(text)
  \/ ParseFail
  \/ Analyze
  \/ \E jsonText \in RawTexts : OracleResolve(jsonText)
  \/ OracleReject
  \/ ClickStop

Spec == Init /\ [][Next]_vars

\* The texts and the oracle's answers of the runs whose ending is followed:
\* a text of one chunk and one of three; an array with no item, one with an
\* item, a text that is no JSON, and a JSON object.
LiveTexts ==
  { <<"a", "b">>,
    <<"[", "P", "1", "]", "[", "P", "2", "]", "a", "b">> }
LiveRawTexts ==
  { <<Val(JArray(<<>>))>>,
    <<Val(JArray(<<ItemA>>))>>,
    <<Junk>>,
    <<Val(JObject)>> }

\* The verifyManuscript call in flight settles: its promise resolves or
\* rejects, and handleAnalyze runs on from its await.
OracleSettle ==
  (\E jsonText \in LiveRawTexts : OracleResolve(jsonText)) \/ OracleReject

NextLive ==
  \/ \E newKey \in ApiKeys : ApiKeyChange(newKey)
  \/ \E value \in LiveTexts : TextEdit(value)
  \/ FileChange
  \/ \E text \in LiveTexts : ParseDone(text)
  \/ ParseFail
  \/ Analyze
  \/ OracleSettle
  \/ ClickStop

\* App with an oracle that answers: a call in flight is settled in the end.
\* The operator's events are under no such condition.  Every settling step
\* changes runPc or returned, which is what the subscript names.
FairSpec ==
  Init /\ [][NextLive]_vars /\ WF_<<runPc, returned>>(OracleSettle)

\* ------------------------------------------- createChunks applied on its own

InitChunks ==
  /\ InitApp
  /\ storedKey = <<>>
  /\ cText \in ChunkTexts
  /\ cSize \in 1..MaxSize
  /\ cChunks = <<>>
  /\ cDone = FALSE
  /\ csvContent = Null
  /\ csvDone = FALSE

Segment ==
  /\ ~cDone
  /\ cChunks' = createChunks(cText, cSize)
  /\ cDone' = TRUE
  /\ UNCHANGED <<appState, mounted, runState, parses, history, cText, cSize,
                 exportState>>

NextChunks == Segment

SpecChunks == InitChunks /\ [][NextChunks]_vars

\* ------------------------------------------------- handleExportCSV, on its own

\* handleExportCSV reads results and writes no state of App: it is applied
\* here to result sets drawn as input.  A field is undefined or up to
\* MaxField characters, a quote, a comma and a line break among them; a
\* result set has up to MaxItems entries, one of them with such a field or a
\* string primitive, the others items of the oracle.
FieldNames == <<"location", "quote_text", "claimed_source", "status", "notes">>
FieldChars == {"a", "\"", ",", NL}
FieldValues == {Undefined} \cup UNION {[1..n -> FieldChars] : n \in 0..MaxField}
ExportItems ==
  {[ItemA EXCEPT ![FieldNames[f]] = v] : f \in 1..5, v \in FieldValues}
    \cup {[prim |-> "x"]}
ExportResults ==
  {<<>>} \cup
  UNION {{[k \in 1..n |-> IF k = j THEN it ELSE IF k % 2 = 1 THEN ItemA ELSE ItemM] :
            j \in 1..n, it \in ExportItems} : n \in 1..MaxItems}

InitCsv ==
  /\ inputText = <<>>
  /\ results \in ExportResults
  /\ isProcessing = FALSE
  /\ isParsing = FALSE
  /\ error = Null
  /\ fileName = Null
  /\ progress = Null
  /\ apiKey = <<>>
  /\ storedKey = <<>>
  /\ mounted = TRUE
  /\ runPc = "idle"
  /\ runText = <<>>
  /\ chunks = <<>>
  /\ runI = 0
  /\ inflight = Null
  /\ outstanding = 0
  /\ parses = 0
  /\ returned = <<>>
  /\ stopRequested = FALSE
  /\ cleared = 0
  /\ cText = <<>>
  /\ cSize = 1
  /\ cChunks = <<>>
  /\ cDone = FALSE
  /\ csvContent = Null
  /\ csvDone = FALSE

\* handleExportCSV (src/App.tsx:201-231).
ExportCSV ==
  /\ ~csvDone
  /\ csvDone' = TRUE
  /\ csvContent' = IF Len(results) = 0 THEN Null ELSE CsvContent(results)
  /\ UNCHANGED <<appState, mounted, runState, parses, history, chunkState>>

NextCsv == ExportCSV

SpecCsv == InitCsv /\ [][NextCsv]_vars

\* ------------------------------------------------------------------ claims

RECURSIVE Flatten(_)
\* The items of a sequence of verifyManuscript results, in order.
Flatten(vs) ==
  IF vs = <<>> THEN <<>>
  ELSE (IF Iterable(Head(vs)) THEN Spread(Head(vs)) ELSE <<>>) \o Flatten(Tail(vs))

IsPrefix(s, t) == Len(s) <= Len(t) /\ SubSeq(t, 1, Len(s)) = s

RECURSIVE ConcatChunks(_)
\* The texts of a chunk list, concatenated in order.
ConcatChunks(cs) ==
  IF cs = <<>> THEN <<>> ELSE Head(cs).text \o ConcatChunks(Tail(cs))

\* The items of the run that no file upload has cleared.
Kept == Flatten(SubSeq(returned, cleared + 1, Len(returned)))

Cex_C2_AbortOnFailure ==
  [][/\ (OracleReject /\ mounted)
          => /\ runPc' = "idle" /\ inflight' = Null
             /\ IsPrefix(Flatten(returned), results')
             /\ error' # Null
     /\ (mounted' /\ runPc = "awaiting" /\ runPc' = "idle" /\ ~OracleReject
           /\ results' = <<>>)
          => error' = Null]_vars

\* C3: once the operator has asked a running run to stop, no oracle call for
\* a later chunk is started.
Cex_C3_Cancellation ==
  [][stopRequested => ~(runPc' = "awaiting" /\ runI' # runI)]_vars

\* The response text, fences stripped, is the text of a JSON array.
IsJsonArrayText(jsonText) ==
  /\ JsonParses(cleanJson(jsonText))
  /\ JsonParse(cleanJson(jsonText)).type = "array"

\* C4: a chunk whose response text is not the text of a JSON array adds no
\* item, the run goes on with the next chunk, and no error is set.
Cex_C4_MalformedTolerance ==
  [][\A jsonText \in RawTexts :
       (OracleResolve(jsonText) /\ mounted /\ ~IsJsonArrayText(jsonText))
         => /\ results' = results
            /\ mounted'
            /\ error' = error
            /\ (runI + 1 < Len(chunks) => runPc' = "awaiting" /\ runI' = runI + 1)]_vars

\* C5: while a run is in progress the result set only grows, and only the
\* run's own loop writes the result set and progress.
Cex_C5_AppendOnly ==
  [][isProcessing
       => /\ IsPrefix(results, results')
          /\ (results' # results \/ progress' # progress)
               => (OracleReject \/ \E jsonText \in RawTexts : OracleResolve(jsonText))]_vars

\* C7: every item of the result set has a status of the enumeration.
Cex_C7_StatusEnumeration ==
  \A k \in 1..Len(results) : StatusOf(results[k]) \in CheckStatus

\* C6: progress, when not null, has 0 <= current <= total, with total the
\* number of chunks of the text the run captured at its start; from one state
\* of a run to the next total does not change and current does not decrease;
\* progress is null when no run is in progress.  (Once React has unmounted
\* App its state is gone: the variables keep the last committed values, which
\* nothing reads, and only the bounds on current are stated of them.)
Thm_C6_Progress ==
  /\ [](/\ progress # Null
            => /\ 0 <= progress.current /\ progress.current <= progress.total
               /\ mounted => progress.total = Len(createChunks(runText, CHUNK_SIZE))
        /\ ~isProcessing => progress = Null
        /\ (mounted /\ runPc = "idle") => progress = Null
        /\ (mounted /\ runPc = "awaiting") => progress # Null /\ isProcessing)
  /\ [][(progress # Null /\ progress' # Null)
          => /\ progress'.total = progress.total
             /\ progress'.current >= progress.current]_vars

\* A run has completed a chunk and the operator has changed the text since
\* the run started.
Wit_C6_Progress ==
  /\ mounted /\ progress # Null /\ progress.current >= 1
  /\ inputText # runText
  /\ Len(createChunks(inputText, CHUNK_SIZE)) # progress.total

\* C8: createChunks returns, and the texts of its chunks concatenated in
\* order are the text; the first chunk starts at 0 and every later one where
\* the one before it ends.  It returns because every pass of its loop moves
\* the cursor forward and never past the end of the text.
Thm_C8_Coverage ==
  /\ \A i \in 0..(Len(cText) - 1) :
       LET end == ChunkEnd(cText, cSize, i) IN i < end /\ end <= Len(cText)
  /\ cDone
       => /\ ConcatChunks(cChunks) = cText
          /\ Len(cChunks) > 0 => cChunks[1].startIndex = 0
          /\ \A k \in 2..Len(cChunks) :
               cChunks[k].startIndex
                 = cChunks[k - 1].startIndex + Len(cChunks[k - 1].text)

\* Several chunks, one of them cut short at a line break.
Wit_C8_Coverage ==
  /\ cDone /\ Len(cChunks) >= 2
  /\ \E k \in 1..(Len(cChunks) - 1) :
       /\ Len(cChunks[k].text) < cSize
       /\ cText[cChunks[k + 1].startIndex + 1] = NL

\* C9 as stated: a text no longer than maxSize gives exactly the one chunk
\* {text: T, startIndex: 0}.
Cex_C9_SingleChunk ==
  (cDone /\ Len(cText) <= cSize) => cChunks = <<[text |-> cText, startIndex |-> 0]>>

\* C9, amended: a text that is not empty and no longer than maxSize gives
\* exactly the one chunk {text: T, startIndex: 0}; the empty text gives no
\* chunk.
Thm_C9_SingleChunk ==
  (cDone /\ Len(cText) <= cSize)
    => cChunks = IF cText = <<>> THEN <<>>
                 ELSE <<[text |-> cText, startIndex |-> 0]>>

\* A text as long as maxSize with a line break in its last tenth.
Wit_C9_SingleChunk ==
  /\ cDone /\ Len(cText) = cSize /\ Len(cChunks) = 1
  /\ \E p \in 0..(Len(cText) - 1) : cText[p + 1] = NL /\ 10 * p > 9 * cSize

\* C10: no chunk is longer than maxSize.
Thm_C10_ChunkBound ==
  cDone => \A k \in 1..Len(cChunks) : Len(cChunks[k].text) <= cSize

\* Several chunks, one of full length and one cut at a line break that sits
\* exactly at the hard boundary.
Wit_C10_ChunkBound ==
  /\ cDone /\ Len(cChunks) >= 2
  /\ \E k \in 1..(Len(cChunks) - 1) :
       /\ Len(cChunks[k].text) = cSize
       /\ cText[cChunks[k + 1].startIndex + 1] = NL

\* The characters p .. e-1 of text are a page marker: "[P", one digit or
\* more, "]".
IsMarker(text, p, e) ==
  /\ 0 <= p /\ p + 4 <= e /\ e <= Len(text)
  /\ text[p + 1] = "[" /\ text[p + 2] = "P" /\ text[e] = "]"
  /\ \A q \in (p + 3)..(e - 1) : IsDigit(text[q])

\* The page markers of text that end at or before position limit.
MarkersBefore(text, limit) ==
  {m \in (0..limit) \X (0..limit) : IsMarker(text, m[1], m[2])}

\* C11: the text sent to the oracle for chunk i of a run is the chunk's text
\* when i = 0 or no page marker lies wholly before the chunk's start in the
\* run's text, and otherwise "(Context: Continued from M)", a line break and
\* the chunk's text, M being the last such marker.
Thm_C11_Continuity ==
  runPc = "awaiting"
    => LET chunk == chunks[runI + 1]
           before == MarkersBefore(runText, chunk.startIndex)
       IN /\ chunks = createChunks(runText, CHUNK_SIZE)
          /\ (runI = 0 \/ before = {}) => inflight.chunkContent = chunk.text
          /\ (runI > 0 /\ before # {})
               => \E m \in before :
                    /\ \A o \in before : o[1] <= m[1]
                    /\ inflight.chunkContent
                         = ContextPrefix \o Slice(runText, m[1], m[2])
                             \o <<")", NL>> \o chunk.text

\* The third chunk of a text is in flight, two markers lie before it, and the
\* text sent for it names the second.
Wit_C11_Continuity ==
  /\ runPc = "awaiting" /\ runI = 2
  /\ Cardinality(MarkersBefore(runText, chunks[3].startIndex)) = 2
  /\ inflight.chunkContent
       = ContextPrefix \o <<"[", "P", "2", "]", ")", NL>> \o chunks[3].text

\* The second chunk of a text is in flight, the marker before it is cut by
\* the chunk boundary, and the text sent is the chunk's text.
Wit_C11_SplitMarker ==
  /\ runPc = "awaiting" /\ runI = 1
  /\ \E p \in 0..(chunks[2].startIndex - 1) :
       \E e \in (chunks[2].startIndex + 1)..Len(runText) : IsMarker(runText, p, e)
  /\ inflight.chunkContent = chunks[2].text

\* C12: in every state the statistics have total = the number of items of the
\* result set and accurate + paraphrased + misattributed + unverifiable =
\* total.
Cex_C12_StatsInvariant ==
  mounted
    => /\ stats.total = Len(results)
       /\ stats.accurate + stats.paraphrased + stats.misattributed
            + stats.unverifiable = stats.total

\* What holds of the statistics: total counts every entry of the result set
\* and each of the four counts the entries of its status.
Inv_C12_StatsCounts ==
  /\ stats.total = Len(results)
  /\ stats.accurate = Cardinality({k \in 1..Len(results) : StatusOf(results[k]) = ACCURATE})
  /\ stats.paraphrased
       = Cardinality({k \in 1..Len(results) : StatusOf(results[k]) = PARAPHRASED})
  /\ stats.misattributed
       = Cardinality({k \in 1..Len(results) : StatusOf(results[k]) = MISATTRIBUTED})
  /\ stats.unverifiable
       = Cardinality({k \in 1..Len(results) : StatusOf(results[k]) = UNVERIFIABLE})

\* A reader of CSV text.  A comma or a line break separates when the number
\* of quotes before it is even; rows are split at such line breaks and the
\* fields of a row at such commas.  A field in quotes reads as the text
\* between them with every two quotes in a row standing for one, and is well
\* formed when its quotes inside come in such pairs.  Each field is read as
\* the record of its value, whether it was quoted, and whether it was well
\* formed.
Quotes(t) == {k \in 1..Len(t) : t[k] = "\""}
QuotesBefore(t, k) == Cardinality({q \in Quotes(t) : q < k})
Separators(t, c) ==
  {k \in 1..Len(t) : t[k] = c /\ QuotesBefore(t, k) % 2 = 0}

\* The i-th smallest element of a set of numbers.
Nth(S, i) == CHOOSE p \in S : Cardinality({q \in S : q <= p}) = i

\* The pieces of t between the positions of S.
SplitAt(t, S) ==
  [i \in 1..(Cardinality(S) + 1) |->
     SubSeq(t, (IF i = 1 THEN 0 ELSE Nth(S, i - 1)) + 1,
               (IF i = Cardinality(S) + 1 THEN Len(t) + 1 ELSE Nth(S, i)) - 1)]

ReadField(raw) ==
  IF Len(raw) >= 2 /\ raw[1] = "\"" /\ raw[Len(raw)] = "\""
  THEN LET inner == SubSeq(raw, 2, Len(raw) - 1)
           first == {q \in Quotes(inner) : QuotesBefore(inner, q) % 2 = 0}
           keep == (1..Len(inner)) \ first
       IN [quoted |-> TRUE,
           value |-> [i \in 1..Cardinality(keep) |-> inner[Nth(keep, i)]],
           ok |-> \A q \in first : q + 1 \in Quotes(inner)]
  ELSE [quoted |-> FALSE, value |-> raw, ok |-> Quotes(raw) = {}]

ReadCsv(t) ==
  LET rows == SplitAt(t, Separators(t, NL))
  IN [r \in 1..Len(rows) |->
        LET fields == SplitAt(rows[r], Separators(rows[r], ","))
        IN [j \in 1..Len(fields) |-> ReadField(fields[j])]]

\* The header row as read back: the five column names, unquoted.
HeaderRead ==
  [j \in 1..5 |-> [quoted |-> FALSE, value |-> headers[j], ok |-> TRUE]]

\* C13 as stated: a result set that is not empty exports to a header row and
\* one row per item in order, rows joined by line breaks; each row holds the
\* five fields location, quote_text, claimed_source, status, notes, each in
\* double quotes with its quotes doubled, and reading a field back gives the
\* item's original value of it; an empty result set exports nothing.
Cex_C13_CsvExport ==
  csvDone
    => IF results = <<>> THEN csvContent = Null
       ELSE /\ csvContent # Null
            /\ ReadCsv(csvContent)
                 = <<HeaderRead>> \o
                   [k \in 1..Len(results) |->
                      [j \in 1..5 |->
                         [quoted |-> TRUE, ok |-> TRUE,
                          value |-> Field(results[k], FieldNames[j])]]]

\* What a field reads back as: the empty text for a field the entry has not.
TextOf(v) == IF v = Undefined THEN <<>> ELSE v

\* C13, amended: as stated, except that reading a field back gives the
\* item's original value only when the item has the field; a field the item
\* has not (undefined) is exported as the empty field and reads back as the
\* empty text.
Thm_C13_CsvExport ==
  csvDone
    => IF results = <<>> THEN csvContent = Null
       ELSE /\ csvContent # Null
            /\ ReadCsv(csvContent)
                 = <<HeaderRead>> \o
                   [k \in 1..Len(results) |->
                      [j \in 1..5 |->
                         [quoted |-> TRUE, ok |-> TRUE,
                          value |-> TextOf(Field(results[k], FieldNames[j]))]]]

\* Three rows have been exported, one with a field of a quote and a line
\* break and one without its claimed_source.
Wit_C13_CsvExport ==
  /\ csvDone /\ csvContent # Null /\ Len(results) = 3
  /\ results[2] = ItemM
  /\ Field(results[1], "notes") = <<"\"", NL>>

\* C14: whenever progress reads current = c during a run, the result set is
\* the items verifyManuscript returned for chunks 0..c-1 of the run, in chunk
\* order and each list in its order; a step advances current by one exactly
\* when it appends the items of the chunk just answered.
Cex_C14_DocumentOrder ==
  /\ []((mounted /\ progress # Null)
          => /\ progress.current <= Len(returned)
             /\ results = Flatten(SubSeq(returned, 1, progress.current)))
  /\ [][(mounted' /\ progress # Null /\ progress' # Null)
          => /\ progress'.current # progress.current
                  => /\ progress'.current = progress.current + 1
                     /\ returned' # <<>>
                     /\ results' = results \o Flatten(<<returned'[Len(returned')]>>)
             /\ results' # results
                  => progress'.current = progress.current + 1]_vars

\* What holds of a run whatever the operator does: current counts the chunks
\* answered, the result set is their items less the ones a file upload
\* cleared, and it is all of them when no upload came in between.
Inv_C14_KeptOrder ==
  (mounted /\ progress # Null)
    => /\ progress.current = Len(returned)
       /\ results = Kept
       /\ cleared = 0 => results = Flatten(returned)

\* C15: at most one verifyManuscript call is outstanding at any time; the
\* call for chunk i + 1 of a run is issued in the step in which the call for
\* chunk i has resolved and its items have been appended, and not before; and
\* while a run is in progress the operator cannot start another.
Thm_C15_OneCallInFlight ==
  /\ [](/\ outstanding <= 1
        /\ outstanding = 1 <=> runPc = "awaiting"
        /\ runPc = "awaiting" => (runI = Len(returned) /\ ~ENABLED Analyze))
  /\ [][(runPc = "awaiting" /\ outstanding' > 0 /\ runI' # runI)
          => /\ runI' = runI + 1
             /\ Len(returned') = runI'
             /\ mounted' => results' = results \o Flatten(<<returned'[runI']>>)
             /\ \E jsonText \in RawTexts : OracleResolve(jsonText)]_vars

\* The call for the second chunk of a run is in flight, the first chunk gave
\* items, and nothing but the run in progress keeps the button disabled.
Wit_C15_OneCallInFlight ==
  /\ mounted /\ runPc = "awaiting" /\ runI = 1 /\ outstanding = 1
  /\ results # <<>>
  /\ ~isParsing /\ inputText # <<>> /\ apiKey # <<>>

\* The line breaks of the text at positions up to e, and the nearest of them
\* going back from e.
BreaksUpTo(e) == {p \in 0..Min(e, Len(cText) - 1) : cText[p + 1] = NL}
NearestBreak(e) == CHOOSE p \in BreaksUpTo(e) : \A q \in BreaksUpTo(e) : q <= p

\* C16 as stated: a chunk that starts at cursor and whose candidate end
\* e = min(cursor + maxSize, length) is before the end of the text ends at the
\* nearest line break p going back from e when p is at or after
\* cursor + 0.9 * maxSize, and at e in every other case.
Cex_C16_ParagraphCut ==
  cDone
    => \A k \in 1..Len(cChunks) :
         LET cursor == cChunks[k].startIndex
             e == Min(cursor + cSize, Len(cText))
         IN e < Len(cText)
              => cursor + Len(cChunks[k].text)
                   = IF BreaksUpTo(e) # {}
                        /\ 10 * NearestBreak(e) >= 10 * cursor + 9 * cSize
                     THEN NearestBreak(e) ELSE e

\* C16, amended: such a chunk ends at the nearest line break p going back
\* from e when p is strictly after cursor + 0.9 * maxSize, and at e in every
\* other case (no line break, or the nearest one is at or before
\* cursor + 0.9 * maxSize).
Thm_C16_ParagraphCut ==
  cDone
    => \A k \in 1..Len(cChunks) :
         LET cursor == cChunks[k].startIndex
             e == Min(cursor + cSize, Len(cText))
         IN e < Len(cText)
              => cursor + Len(cChunks[k].text)
                   = IF BreaksUpTo(e) # {}
                        /\ 10 * NearestBreak(e) > 10 * cursor + 9 * cSize
                     THEN NearestBreak(e) ELSE e

\* A chunk has been cut at a line break before its candidate end.
Wit_C16_ParagraphCut ==
  /\ cDone
  /\ \E k \in 1..Len(cChunks) :
       LET cursor == cChunks[k].startIndex
           e == Min(cursor + cSize, Len(cText))
       IN /\ e < Len(cText)
          /\ BreaksUpTo(e) # {}
          /\ cursor + Len(cChunks[k].text) = NearestBreak(e)
          /\ NearestBreak(e) < e

\* The nearest line break is exactly nine tenths of maxSize after the cursor
\* and the chunk has been cut at its candidate end.
Wit_C16_Boundary ==
  /\ cDone
  /\ \E k \in 1..Len(cChunks) :
       LET cursor == cChunks[k].startIndex
           e == Min(cursor + cSize, Len(cText))
       IN /\ e < Len(cText)
          /\ BreaksUpTo(e) # {}
          /\ 10 * NearestBreak(e) = 10 * cursor + 9 * cSize
          /\ cursor + Len(cChunks[k].text) = e

\* C17: every run that passes the start checks ends, the oracle settling
\* each call; once it has ended, after the last chunk or at the first call
\* that fails, isProcessing is false and progress is null; and isProcessing
\* is true exactly while the run is under way.  (Of App's state this is
\* stated while React renders App.)
Thm_C17_Termination ==
  /\ [](mounted => /\ isProcessing <=> runPc = "awaiting"
                   /\ runPc = "idle" => (~isProcessing /\ progress = Null))
  /\ [](runPc = "awaiting" => runI < Len(chunks))
  /\ (runPc = "awaiting") ~> (runPc = "idle")

\* A run of three chunks has ended after its last chunk.
Wit_C17_Termination ==
  /\ mounted /\ runPc = "idle" /\ ~isProcessing /\ progress = Null
  /\ error = Null /\ Len(returned) = 3

====
